---- MODULE Spec2Model ----
(***************************************************************************)
(* Model of the text-edit patch engine of go-lsp (package lsp): validate,  *)
(* sortEdits / editsSort, apply and applyBytes; the conversions between    *)
(* Edits and TextEdits through a Mapper; the TextEdit / AnnotatedTextEdit  *)
(* adapters; and the cancellation relay of package protocol.               *)
(*                                                                         *)
(* A string or byte slice is a sequence of byte values (integers); Go's    *)
(* 0-based half-open slice s[lo:hi] is Slice(s, lo, hi).  An Edit is a     *)
(* record [Start, End, New].  The functions are pure: a behaviour picks an *)
(* input (src, edits) in Init and one action calls a function on it and    *)
(* records what the function returned.                                     *)
(***************************************************************************)
EXTENDS Integers, Sequences, FiniteSets

VARIABLES
    src,        \* the source buffer (Mapper.Content in the conversions)
    edits,      \* the caller's []Edit
    editsNil,   \* whether the caller's []Edit is nil
    tedits,     \* the caller's []TextEdit
    teditsNil,  \* whether the caller's []TextEdit is nil
    elems,      \* the caller's []Or_TextDocumentEdit_edits_Elem
    call,       \* the function that was called, "none" before the call
    ret,        \* what the call returned
    rpc         \* the state of one protocol call (package protocol)

vars == <<src, edits, editsNil, tedits, teditsNil, elems, call, ret, rpc>>

(* ------------------------------ bounds -------------------------------- *)

\* longest source buffer tried with arbitrary (also malformed) edits
MaxLen == 1

\* longest source buffer tried with well-formed edits (0 <= Start <= End <= len)
MaxValidLen == 3

\* most edits in an enumerated edit sequence
MaxEdits == 3

\* width in bits of the model's machine integer (Go's int, scaled down)
IntWidth == 8

\* longest buffer under the spec's overlap example {2,5},{4,6}
MaxExampleLen == 7

\* longest Mapper content in the conversions
MaxConvLen == 2

\* most edits in a sequence given to a conversion
MaxConvEdits == 2

\* largest line number in a TextEdit given to a conversion
MaxLine == 1

\* largest character number in a TextEdit given to a conversion
MaxCharacter == 1

(* --------------------------- machine integers -------------------------- *)

\* 2^n
RECURSIVE Pow2(_)
Pow2(n) == IF n = 0 THEN 1 ELSE 2 * Pow2(n - 1)

MinInt == -Pow2(IntWidth - 1)

MaxInt == Pow2(IntWidth - 1) - 1

\* the value of an int expression after two's-complement wrap-around
WrapInt(x) == ((x - MinInt) % Pow2(IntWidth)) + MinInt

(* ------------------------------- strings ------------------------------- *)

\* Go's s[lo:hi] (0-based, half-open)
Slice(s, lo, hi) == SubSeq(s, lo + 1, hi)

\* the source buffer of length n: "abc..." (apply never inspects a byte's value)
SrcOfLen(n) == [i \in 1..n |-> 96 + i]

\* error values (nil is "none")
ErrNone == "none"

ErrOutOfBounds == "diff has out-of-bounds edits"

ErrOverlap == "diff has overlapping edits"

\* panic values
PanicNone == "none"

PanicWrongSize == "wrong size"

PanicSliceBounds == "slice bounds out of range"

PanicMakeSlice == "makeslice: cap out of range"

(* ------------------------------- sorting ------------------------------- *)

\* a faulty Less: compares Start only
Less_StartOnly(a, i, j) == WrapInt(a[i].Start - a[j].Start) < 0

\* a faulty Less: compares End with <=, so equal edits count as out of order
Less_TieIsLess(a, i, j) ==
    LET cmp == WrapInt(a[i].Start - a[j].Start)
    IN  IF cmp # 0 THEN cmp < 0 ELSE a[i].End <= a[j].End

\* editsSort.Less(i, j), indices 1-based
Less(a, i, j) ==
    LET cmp == WrapInt(a[i].Start - a[j].Start)
    IN  IF cmp # 0 THEN cmp < 0 ELSE a[i].End < a[j].End

\* a faulty Swap: writes one of the two elements only
Swap_Overwrite(a, i, j) == [a EXCEPT ![i] = a[j]]

\* editsSort.Swap(i, j)
Swap(a, i, j) == [a EXCEPT ![i] = a[j], ![j] = a[i]]

\* sort.IsSorted: no element is Less than the one before it
IsSorted(a) == \A i \in 2..Len(a) : ~Less(a, i, i - 1)

\* inner loop of the insertion sort: sink element j while it is Less than
\* its left neighbour
RECURSIVE SinkLeft(_, _)
SinkLeft(a, j) ==
    IF j > 1 /\ Less(a, j, j - 1) THEN SinkLeft(Swap(a, j, j - 1), j - 1) ELSE a

\* outer loop of the insertion sort, from element i on
RECURSIVE InsertionSortFrom(_, _)
InsertionSortFrom(a, i) ==
    IF i > Len(a) THEN a ELSE InsertionSortFrom(SinkLeft(a, i), i + 1)

\* a faulty sortEdits: leaves the slice as it is
sortEdits_NoSort(a) == a

\* sortEdits: sort.Stable, which for slices of at most 20 elements is one
\* insertion sort over the whole slice
sortEdits(a) == InsertionSortFrom(a, 2)

(* ------------------------------- validate ------------------------------ *)

\* a faulty validate loop: adds len(New) and forgets the replaced range
RECURSIVE validateLoop_SizeNoRange(_, _, _, _, _)
validateLoop_SizeNoRange(s, es, i, size, lastEnd) ==
    IF i > Len(es) THEN [size |-> size, err |-> ErrNone]
    ELSE LET edit == es[i] IN
         IF edit.Start < 0 \/ edit.Start > edit.End \/ edit.End > Len(s)
         THEN [size |-> 0, err |-> ErrOutOfBounds]
         ELSE IF edit.Start < lastEnd
         THEN [size |-> 0, err |-> ErrOverlap]
         ELSE validateLoop_SizeNoRange(s, es, i + 1,
                     WrapInt(size + Len(edit.New)),
                     edit.End)

\* a faulty validate loop: the replaced range enters the size with the wrong sign
RECURSIVE validateLoop_SizeSign(_, _, _, _, _)
validateLoop_SizeSign(s, es, i, size, lastEnd) ==
    IF i > Len(es) THEN [size |-> size, err |-> ErrNone]
    ELSE LET edit == es[i] IN
         IF edit.Start < 0 \/ edit.Start > edit.End \/ edit.End > Len(s)
         THEN [size |-> 0, err |-> ErrOutOfBounds]
         ELSE IF edit.Start < lastEnd
         THEN [size |-> 0, err |-> ErrOverlap]
         ELSE validateLoop_SizeSign(s, es, i + 1,
                     WrapInt(size + Len(edit.New) + edit.End - edit.Start),
                     edit.End)

\* a faulty validate loop: an edit starting at the previous End overlaps
RECURSIVE validateLoop_TouchOverlaps(_, _, _, _, _)
validateLoop_TouchOverlaps(s, es, i, size, lastEnd) ==
    IF i > Len(es) THEN [size |-> size, err |-> ErrNone]
    ELSE LET edit == es[i] IN
         IF edit.Start < 0 \/ edit.Start > edit.End \/ edit.End > Len(s)
         THEN [size |-> 0, err |-> ErrOutOfBounds]
         ELSE IF edit.Start <= lastEnd
         THEN [size |-> 0, err |-> ErrOverlap]
         ELSE validateLoop_TouchOverlaps(s, es, i + 1,
                     WrapInt(size + Len(edit.New) + edit.Start - edit.End),
                     edit.End)

\* a faulty validate loop: the overlap check precedes the bounds check
RECURSIVE validateLoop_OverlapFirst(_, _, _, _, _)
validateLoop_OverlapFirst(s, es, i, size, lastEnd) ==
    IF i > Len(es) THEN [size |-> size, err |-> ErrNone]
    ELSE LET edit == es[i] IN
         IF edit.Start < lastEnd
         THEN [size |-> 0, err |-> ErrOverlap]
         ELSE IF edit.Start < 0 \/ edit.Start > edit.End \/ edit.End > Len(s)
         THEN [size |-> 0, err |-> ErrOutOfBounds]
         ELSE validateLoop_OverlapFirst(s, es, i + 1,
                     WrapInt(size + Len(edit.New) + edit.Start - edit.End),
                     edit.End)

\* a faulty validate loop: End is not checked against len(src)
RECURSIVE validateLoop_NoEndCheck(_, _, _, _, _)
validateLoop_NoEndCheck(s, es, i, size, lastEnd) ==
    IF i > Len(es) THEN [size |-> size, err |-> ErrNone]
    ELSE LET edit == es[i] IN
         IF edit.Start < 0 \/ edit.Start > edit.End
         THEN [size |-> 0, err |-> ErrOutOfBounds]
         ELSE IF edit.Start < lastEnd
         THEN [size |-> 0, err |-> ErrOverlap]
         ELSE validateLoop_NoEndCheck(s, es, i + 1,
                     WrapInt(size + Len(edit.New) + edit.Start - edit.End),
                     edit.End)

\* a faulty validate loop: the overlap test is left out
RECURSIVE validateLoop_NoOverlapCheck(_, _, _, _, _)
validateLoop_NoOverlapCheck(s, es, i, size, lastEnd) ==
    IF i > Len(es) THEN [size |-> size, err |-> ErrNone]
    ELSE LET edit == es[i] IN
         IF edit.Start < 0 \/ edit.Start > edit.End \/ edit.End > Len(s)
         THEN [size |-> 0, err |-> ErrOutOfBounds]
         ELSE validateLoop_NoOverlapCheck(s, es, i + 1,
                           WrapInt(size + Len(edit.New) + edit.Start - edit.End),
                           edit.End)

\* the loop of validate from index i, with the size and lastEnd so far;
\* yields [size, err]
RECURSIVE validateLoop(_, _, _, _, _)
validateLoop(s, es, i, size, lastEnd) ==
    IF i > Len(es) THEN [size |-> size, err |-> ErrNone]
    ELSE LET edit == es[i] IN
         IF edit.Start < 0 \/ edit.Start > edit.End \/ edit.End > Len(s)
         THEN [size |-> 0, err |-> ErrOutOfBounds]
         ELSE IF edit.Start < lastEnd
         THEN [size |-> 0, err |-> ErrOverlap]
         ELSE validateLoop(s, es, i + 1,
                           WrapInt(size + Len(edit.New) + edit.Start - edit.End),
                           edit.End)

\* a faulty validate: on an error it still returns the sorted edits
validate_PartialOnError(s, es, esNil) ==
    LET sorted == IF ~IsSorted(es) THEN sortEdits(es) ELSE es
        r == validateLoop(s, sorted, 1, Len(s), 0)
    IN  [edits |-> sorted, editsNil |-> esNil, size |-> r.size, err |-> r.err,
         arg |-> es]

\* a faulty validate: sorts the caller's slice itself, without slices.Clone
validate_SortInPlace(s, es, esNil) ==
    LET sorted == IF ~IsSorted(es) THEN sortEdits(es) ELSE es
        r == validateLoop(s, sorted, 1, Len(s), 0)
    IN  IF r.err # ErrNone
        THEN [edits |-> <<>>, editsNil |-> TRUE, size |-> r.size, err |-> r.err,
              arg |-> sorted]
        ELSE [edits |-> sorted, editsNil |-> esNil, size |-> r.size, err |-> ErrNone,
              arg |-> sorted]

\* a faulty validate: checks the bounds of all edits in a first pass
validate_BoundsPass(s, es, esNil) ==
    LET sorted == IF ~IsSorted(es) THEN sortEdits(es) ELSE es
        r == validateLoop(s, sorted, 1, Len(s), 0)
    IN  IF \E k \in 1..Len(es) :
               es[k].Start < 0 \/ es[k].Start > es[k].End \/ es[k].End > Len(s)
        THEN [edits |-> <<>>, editsNil |-> TRUE, size |-> 0, err |-> ErrOutOfBounds,
              arg |-> es]
        ELSE IF r.err # ErrNone
        THEN [edits |-> <<>>, editsNil |-> TRUE, size |-> r.size, err |-> r.err,
              arg |-> es]
        ELSE [edits |-> sorted, editsNil |-> esNil, size |-> r.size, err |-> ErrNone,
              arg |-> es]

\* validate(src, edits): [edits, editsNil, size, err], and arg, the elements
\* of the caller's slice when validate returns: the sort works on a clone
validate(s, es, esNil) ==
    LET sorted == IF ~IsSorted(es) THEN sortEdits(es) ELSE es
        r == validateLoop(s, sorted, 1, Len(s), 0)
    IN  IF r.err # ErrNone
        THEN [edits |-> <<>>, editsNil |-> TRUE, size |-> r.size, err |-> r.err,
              arg |-> es]
        ELSE [edits |-> sorted, editsNil |-> esNil, size |-> r.size, err |-> ErrNone,
              arg |-> es]

(* -------------------------------- apply -------------------------------- *)

\* a faulty apply loop: the source bytes between two edits are not copied
RECURSIVE applyLoop_NoGap(_, _, _)
applyLoop_NoGap(s, es, k) ==
    IF k = 0 THEN [out |-> <<>>, lastEnd |-> 0, fault |-> FALSE]
    ELSE LET p == applyLoop_NoGap(s, es, k - 1)
             edit == es[k]
         IN  [out |-> p.out \o edit.New, lastEnd |-> edit.End, fault |-> FALSE]

\* the state of apply's loop after its first k iterations over es:
\* [out, lastEnd, fault]
RECURSIVE applyLoop(_, _, _)
applyLoop(s, es, k) ==
    IF k = 0 THEN [out |-> <<>>, lastEnd |-> 0, fault |-> FALSE]
    ELSE LET p == applyLoop(s, es, k - 1)
             edit == es[k]
         IN  IF p.fault THEN p
             ELSE IF p.lastEnd < edit.Start
             THEN IF p.lastEnd < 0 \/ edit.Start > Len(s)
                  THEN [p EXCEPT !.fault = TRUE]
                  ELSE [out |-> p.out \o Slice(s, p.lastEnd, edit.Start) \o edit.New,
                        lastEnd |-> edit.End, fault |-> FALSE]
             ELSE [out |-> p.out \o edit.New, lastEnd |-> edit.End, fault |-> FALSE]

\* a faulty apply: the source bytes after the last edit are not copied
apply_NoTail(s, es, esNil) ==
    LET v == validate(s, es, esNil) IN
    IF v.err # ErrNone
    THEN [out |-> <<>>, err |-> v.err, panic |-> PanicNone, arg |-> v.arg]
    ELSE IF v.size < 0
    THEN [out |-> <<>>, err |-> ErrNone, panic |-> PanicMakeSlice, arg |-> v.arg]
    ELSE LET l == applyLoop(s, v.edits, Len(v.edits)) IN
         IF l.fault
         THEN [out |-> <<>>, err |-> ErrNone, panic |-> PanicSliceBounds, arg |-> v.arg]
         ELSE IF Len(l.out) # v.size
              THEN [out |-> <<>>, err |-> ErrNone, panic |-> PanicWrongSize, arg |-> v.arg]
              ELSE [out |-> l.out, err |-> ErrNone, panic |-> PanicNone, arg |-> v.arg]

\* apply(src, edits): [out, err, panic], and arg, the elements of the
\* caller's slice when apply returns
apply(s, es, esNil) ==
    LET v == validate(s, es, esNil) IN
    IF v.err # ErrNone
    THEN [out |-> <<>>, err |-> v.err, panic |-> PanicNone, arg |-> v.arg]
    ELSE IF v.size < 0
    THEN [out |-> <<>>, err |-> ErrNone, panic |-> PanicMakeSlice, arg |-> v.arg]
    ELSE LET l == applyLoop(s, v.edits, Len(v.edits)) IN
         IF l.fault \/ l.lastEnd < 0 \/ l.lastEnd > Len(s)
         THEN [out |-> <<>>, err |-> ErrNone, panic |-> PanicSliceBounds, arg |-> v.arg]
         ELSE LET out == l.out \o Slice(s, l.lastEnd, Len(s)) IN
              IF Len(out) # v.size
              THEN [out |-> <<>>, err |-> ErrNone, panic |-> PanicWrongSize, arg |-> v.arg]
              ELSE [out |-> out, err |-> ErrNone, panic |-> PanicNone, arg |-> v.arg]

\* applyBytes(src, edits): apply on string(src), the result converted back
applyBytes(s, es, esNil) == apply(s, es, esNil)

(* -------------------------------- Mapper ------------------------------- *)
(* The Mapper is an external capability: OffsetRange(start, end) gives the *)
(* line/character Range of two byte offsets of Content, RangeOffsets(Range) *)
(* the two offsets of a Range; each fails when it cannot resolve an offset *)
(* or a position.  A Position is [line, character], both 0-based; a line   *)
(* ends at a newline byte (10); contents are ASCII, so a character is one  *)
(* byte.                                                                   *)

\* the error of a Mapper that cannot resolve an offset or a position
ErrMapping == "mapper: cannot resolve"

\* the offset at which the line holding offset o starts
LineStart(c, o) ==
    LET nl == {i \in 1..o : c[i] = 10}
    IN  IF nl = {} THEN 0 ELSE CHOOSE i \in nl : \A j \in nl : j <= i

\* the Position of offset o of content c
OffsetPosition(c, o) ==
    [line |-> Cardinality({i \in 1..o : c[i] = 10}), character |-> o - LineStart(c, o)]

\* the offsets of content c that lie at Position p (at most one)
PositionOffsets(c, p) == {o \in 0..Len(c) : OffsetPosition(c, o) = p}

ZeroPosition == [line |-> 0, character |-> 0]

ZeroRange == [start |-> ZeroPosition, end |-> ZeroPosition]

\* Mapper.OffsetRange(start, end): [rng, err]
OffsetRange(c, start, end) ==
    IF start \in 0..Len(c) /\ end \in 0..Len(c)
    THEN [rng |-> [start |-> OffsetPosition(c, start), end |-> OffsetPosition(c, end)],
          err |-> ErrNone]
    ELSE [rng |-> ZeroRange, err |-> ErrMapping]

\* Mapper.RangeOffsets(rng): [start, end, err]
RangeOffsets(c, rng) ==
    IF PositionOffsets(c, rng.start) # {} /\ PositionOffsets(c, rng.end) # {}
    THEN [start |-> CHOOSE o \in PositionOffsets(c, rng.start) : TRUE,
          end |-> CHOOSE o \in PositionOffsets(c, rng.end) : TRUE,
          err |-> ErrNone]
    ELSE [start |-> 0, end |-> 0, err |-> ErrMapping]

(* ----------------------------- conversions ----------------------------- *)

\* the loop of EditsFromDiffEdits over the sorted edits, from index i, with
\* the TextEdits made so far: [tedits, err]
RECURSIVE fromDiffLoop(_, _, _, _)
fromDiffLoop(c, es, i, result) ==
    IF i > Len(es) THEN [tedits |-> result, err |-> ErrNone]
    ELSE LET r == OffsetRange(c, es[i].Start, es[i].End) IN
         IF r.err # ErrNone THEN [tedits |-> <<>>, err |-> r.err]
         ELSE fromDiffLoop(c, es, i + 1,
                           Append(result, [Range |-> r.rng, NewText |-> es[i].New]))

\* a faulty EditsFromDiffEdits: converts the edits in the order given
EditsFromDiffEdits_NoSort(c, es) ==
    LET r == fromDiffLoop(c, es, 1, <<>>)
    IN  [tedits |-> r.tedits, teditsNil |-> r.err # ErrNone, err |-> r.err, arg |-> es]

\* EditsFromDiffEdits(m, edits) with m.Content = c: [tedits, teditsNil, err],
\* and arg, the elements of the caller's slice on return (a clone is sorted)
EditsFromDiffEdits(c, es) ==
    LET r == fromDiffLoop(c, sortEdits(es), 1, <<>>)
    IN  [tedits |-> r.tedits, teditsNil |-> r.err # ErrNone, err |-> r.err, arg |-> es]

\* a faulty EditsToDiffEdits loop: an unresolved range is skipped and the
\* edits converted so far are kept
RECURSIVE toDiffLoop_KeepPartial(_, _, _, _)
toDiffLoop_KeepPartial(c, tes, i, result) ==
    IF i > Len(tes) THEN [edits |-> result, err |-> ErrNone]
    ELSE LET r == RangeOffsets(c, tes[i].Range) IN
         IF r.err # ErrNone THEN [edits |-> result, err |-> r.err]
         ELSE toDiffLoop_KeepPartial(c, tes, i + 1,
                  Append(result, [Start |-> r.start, End |-> r.end, New |-> tes[i].NewText]))

\* a faulty EditsToDiffEdits loop: End is given the start offset
RECURSIVE toDiffLoop_EndIsStart(_, _, _, _)
toDiffLoop_EndIsStart(c, tes, i, result) ==
    IF i > Len(tes) THEN [edits |-> result, err |-> ErrNone]
    ELSE LET r == RangeOffsets(c, tes[i].Range) IN
         IF r.err # ErrNone THEN [edits |-> <<>>, err |-> r.err]
         ELSE toDiffLoop_EndIsStart(c, tes, i + 1,
                  Append(result, [Start |-> r.start, End |-> r.start, New |-> tes[i].NewText]))

\* the loop of EditsToDiffEdits from index i, with the Edits made so far:
\* [edits, err]
RECURSIVE toDiffLoop(_, _, _, _)
toDiffLoop(c, tes, i, result) ==
    IF i > Len(tes) THEN [edits |-> result, err |-> ErrNone]
    ELSE LET r == RangeOffsets(c, tes[i].Range) IN
         IF r.err # ErrNone THEN [edits |-> <<>>, err |-> r.err]
         ELSE toDiffLoop(c, tes, i + 1,
                  Append(result, [Start |-> r.start, End |-> r.end, New |-> tes[i].NewText]))

\* a faulty EditsToDiffEdits: sorts what it converted, as EditsFromDiffEdits does
EditsToDiffEdits_Sorted(c, tes, tesNil) ==
    IF tesNil THEN [edits |-> <<>>, editsNil |-> TRUE, err |-> ErrNone]
    ELSE LET r == toDiffLoop(c, tes, 1, <<>>)
         IN  [edits |-> sortEdits(r.edits), editsNil |-> r.err # ErrNone, err |-> r.err]

\* EditsToDiffEdits(m, edits) with m.Content = c: [edits, editsNil, err]
EditsToDiffEdits(c, tes, tesNil) ==
    IF tesNil THEN [edits |-> <<>>, editsNil |-> TRUE, err |-> ErrNone]
    ELSE LET r == toDiffLoop(c, tes, 1, <<>>)
         IN  [edits |-> r.edits, editsNil |-> r.err # ErrNone, err |-> r.err]

\* what ApplyEdits returns after applyBytes returned r for the converted
\* edits d: out, diffEdits, err
applyEditsReturn(d, r) ==
    [out |-> r.out, outNil |-> FALSE, edits |-> r.arg, editsNil |-> d.editsNil,
     err |-> r.err, panic |-> r.panic]

\* a faulty ApplyEdits: returns nil, nil, err also when applyBytes fails
applyEditsAfter_NilOnError(c, d) ==
    IF d.err # ErrNone \/ applyBytes(c, d.edits, d.editsNil).err # ErrNone
    THEN [out |-> <<>>, outNil |-> TRUE, edits |-> <<>>, editsNil |-> TRUE,
          err |-> IF d.err # ErrNone THEN d.err
                  ELSE applyBytes(c, d.edits, d.editsNil).err,
          panic |-> PanicNone]
    ELSE applyEditsReturn(d, applyBytes(c, d.edits, d.editsNil))

\* ApplyEdits after EditsToDiffEdits returned d
applyEditsAfter(c, d) ==
    IF d.err # ErrNone
    THEN [out |-> <<>>, outNil |-> TRUE, edits |-> <<>>, editsNil |-> TRUE,
          err |-> d.err, panic |-> PanicNone]
    ELSE applyEditsReturn(d, applyBytes(c, d.edits, d.editsNil))

\* ApplyEdits(m, edits) with m.Content = c: [out, outNil, edits, editsNil,
\* err, panic]; the Edits returned are the slice applyBytes was given
ApplyEdits(c, tes, tesNil) == applyEditsAfter(c, EditsToDiffEdits(c, tes, tesNil))

(* -------------------------------- inputs ------------------------------- *)

\* replacement texts: "", "X", "Y"
News == {<<>>, <<88>>, <<89>>}

\* the edits tried over a buffer of length n: Start from one below 0 to one
\* past the end, End from 0 to one past the end (a negative End only occurs
\* with Start < 0 or Start > End, which these cover)
EditsOver(n) ==
    [Start : -1..(n + 1), End : 0..(n + 1), New : News]

\* the well-formed edits over a buffer of length n
ValidEditsOver(n) ==
    {e \in [Start : 0..n, End : 0..n, New : News] : e.Start <= e.End}

\* enumerated inputs: every sequence of at most MaxEdits edits over every
\* buffer of at most MaxLen bytes, and every sequence of at most MaxEdits
\* well-formed edits over every longer buffer of at most MaxValidLen bytes
EnumeratedInput(s, es) ==
    \/ \E n \in 0..MaxLen :
           /\ s = SrcOfLen(n)
           /\ \E k \in 0..MaxEdits : es \in [1..k -> EditsOver(n)]
    \/ \E n \in (MaxLen + 1)..MaxValidLen :
           /\ s = SrcOfLen(n)
           /\ \E k \in 0..MaxEdits : es \in [1..k -> ValidEditsOver(n)]

\* "package main"
PackageMain == <<112, 97, 99, 107, 97, 103, 101, 32, 109, 97, 105, 110>>

\* "package test"
PackageTest == <<112, 97, 99, 107, 97, 103, 101, 32, 116, 101, 115, 116>>

Ed(s, e, new) == [Start |-> s, End |-> e, New |-> new]

\* the two edits of the overlap example, {2,5} and {4,6}
OverlapPair == <<Ed(2, 5, <<88>>), Ed(4, 6, <<89>>)>>

\* the inputs of the documented examples
Examples ==
    {[src |-> PackageMain, edits |-> <<Ed(0, 7, SubSeq(PackageMain, 1, 7))>>],
     [src |-> PackageMain, edits |-> <<Ed(8, 12, SubSeq(PackageTest, 9, 12))>>],
     [src |-> SrcOfLen(10), edits |-> <<Ed(0, 100, <<>>)>>]}
    \cup {[src |-> SrcOfLen(n), edits |-> es] :
            n \in 0..MaxExampleLen,
            es \in {OverlapPair, <<OverlapPair[2], OverlapPair[1]>>}}

(* ----------------------------- state machine --------------------------- *)

\* nothing returned yet: every result slice nil, no error, no panic
NoRet ==
    [edits |-> <<>>, editsNil |-> TRUE, size |-> 0,
     out |-> <<>>, outNil |-> TRUE, err |-> ErrNone, panic |-> PanicNone,
     tedits |-> <<>>, teditsNil |-> TRUE, elems |-> <<>>, elemsNil |-> TRUE]

\* no protocol call is in progress
NoRpc == [pc |-> "idle"]

Init ==
    /\ \/ EnumeratedInput(src, edits)
       \/ \E x \in Examples : src = x.src /\ edits = x.edits
    /\ editsNil \in {b \in BOOLEAN : b => edits = <<>>}
    /\ tedits = <<>> /\ teditsNil = TRUE /\ elems = <<>>
    /\ call = "none"
    /\ ret = NoRet
    /\ rpc = NoRpc

\* a caller runs validate(src, edits)
Validate ==
    /\ call = "none"
    /\ call' = "validate"
    /\ LET v == validate(src, edits, editsNil)
       IN  /\ ret' = [NoRet EXCEPT !.edits = v.edits, !.editsNil = v.editsNil,
                                   !.size = v.size, !.err = v.err]
           /\ edits' = v.arg
    /\ UNCHANGED <<src, editsNil, tedits, teditsNil, elems, rpc>>

\* a caller runs apply(src, edits)
Apply ==
    /\ call = "none"
    /\ call' = "apply"
    /\ LET r == apply(src, edits, editsNil)
       IN  /\ ret' = [NoRet EXCEPT !.out = r.out, !.err = r.err, !.panic = r.panic]
           /\ edits' = r.arg
    /\ UNCHANGED <<src, editsNil, tedits, teditsNil, elems, rpc>>

\* a caller runs applyBytes(src, edits)
ApplyBytes ==
    /\ call = "none"
    /\ call' = "applyBytes"
    /\ LET r == applyBytes(src, edits, editsNil)
       IN  /\ ret' = [NoRet EXCEPT !.out = r.out, !.outNil = FALSE,
                                   !.err = r.err, !.panic = r.panic]
           /\ edits' = r.arg
    /\ UNCHANGED <<src, editsNil, tedits, teditsNil, elems, rpc>>

Next == Validate \/ Apply \/ ApplyBytes

Spec == Init /\ [][Next]_vars

(* ------------------------ apply: loop by iteration --------------------- *)

\* apply at the head of its loop before iteration i over the validated
\* edits es, l being the state of the loop after i - 1 iterations
AtLoopHead(es, size, i, l) ==
    [edits |-> es, size |-> size, i |-> i, lastEnd |-> l.lastEnd, out |-> l.out,
     err |-> ErrNone, panic |-> PanicNone]

\* what apply returned, as the caller holds it
RetOfApply(r) == [NoRet EXCEPT !.out = r.out, !.err = r.err, !.panic = r.panic]

\* apply(src, edits) runs validate and makes the output buffer: it returns
\* the error, or stands before the first iteration with lastEnd = 0
ApplyEnter ==
    /\ call = "none"
    /\ LET v == validate(src, edits, editsNil) IN
       IF v.err # ErrNone \/ v.size < 0
       THEN /\ call' = "apply"
            /\ ret' = RetOfApply(apply(src, edits, editsNil))
       ELSE /\ call' = "apply.loop"
            /\ ret' = AtLoopHead(v.edits, v.size, 1, applyLoop(src, v.edits, 0))
    /\ UNCHANGED <<src, edits, editsNil, tedits, teditsNil, elems, rpc>>

\* one iteration of the loop: the gap before the edit, its New, lastEnd = edit.End
ApplyIteration ==
    /\ call = "apply.loop"
    /\ ret.i <= Len(ret.edits)
    /\ LET l == applyLoop(src, ret.edits, ret.i) IN
       IF l.fault
       THEN /\ call' = "apply"
            /\ ret' = [NoRet EXCEPT !.panic = PanicSliceBounds]
       ELSE /\ call' = "apply.loop"
            /\ ret' = AtLoopHead(ret.edits, ret.size, ret.i + 1, l)
    /\ UNCHANGED <<src, edits, editsNil, tedits, teditsNil, elems, rpc>>

\* after the last iteration: the rest of src, the size test, the return
ApplyReturn ==
    /\ call = "apply.loop"
    /\ ret.i > Len(ret.edits)
    /\ call' = "apply"
    /\ ret' = RetOfApply(apply(src, edits, editsNil))
    /\ UNCHANGED <<src, edits, editsNil, tedits, teditsNil, elems, rpc>>

NextLoop == ApplyEnter \/ ApplyIteration \/ ApplyReturn

SpecLoop == Init /\ [][NextLoop]_vars

(* ------------------------ conversions: state machine ------------------- *)

\* the Positions tried in the TextEdits given to a conversion
Positions == [line : 0..MaxLine, character : 0..MaxCharacter]

\* the TextEdits given to a conversion: replacement texts "X", "Y"
TextEditInputs == [Range : [start : Positions, end : Positions], NewText : {<<88>>, <<89>>}]

\* a conversion's inputs: a Mapper content of letters and newlines, and
\* either Edits or TextEdits
InitConv ==
    /\ \E n \in 0..MaxConvLen :
          /\ src \in [1..n -> {97, 10}]
          /\ \/ /\ \E k \in 0..MaxConvEdits : edits \in [1..k -> EditsOver(n)]
                /\ tedits = <<>>
             \/ /\ edits = <<>>
                /\ \E k \in 0..MaxConvEdits : tedits \in [1..k -> TextEditInputs]
    /\ editsNil \in {b \in BOOLEAN : b => edits = <<>>}
    /\ teditsNil \in {b \in BOOLEAN : b => tedits = <<>>}
    /\ elems = <<>>
    /\ call = "none"
    /\ ret = NoRet
    /\ rpc = NoRpc

\* a caller runs EditsFromDiffEdits(m, edits)
CallEditsFromDiffEdits ==
    /\ call = "none"
    /\ call' = "EditsFromDiffEdits"
    /\ LET r == EditsFromDiffEdits(src, edits)
       IN  /\ ret' = [NoRet EXCEPT !.tedits = r.tedits, !.teditsNil = r.teditsNil,
                                   !.err = r.err]
           /\ edits' = r.arg
    /\ UNCHANGED <<src, editsNil, tedits, teditsNil, elems, rpc>>

\* a caller runs EditsToDiffEdits(m, tedits)
CallEditsToDiffEdits ==
    /\ call = "none"
    /\ call' = "EditsToDiffEdits"
    /\ LET r == EditsToDiffEdits(src, tedits, teditsNil)
       IN  ret' = [NoRet EXCEPT !.edits = r.edits, !.editsNil = r.editsNil, !.err = r.err]
    /\ UNCHANGED <<src, edits, editsNil, tedits, teditsNil, elems, rpc>>

\* a caller that got TextEdits from EditsFromDiffEdits converts them back
\* with EditsToDiffEdits
CallEditsToDiffEditsOnResult ==
    /\ call = "EditsFromDiffEdits"
    /\ ret.err = ErrNone
    /\ call' = "RoundTrip"
    /\ LET r == EditsToDiffEdits(src, ret.tedits, ret.teditsNil)
       IN  ret' = [NoRet EXCEPT !.edits = r.edits, !.editsNil = r.editsNil, !.err = r.err]
    /\ UNCHANGED <<src, edits, editsNil, tedits, teditsNil, elems, rpc>>

\* the results of ApplyEdits as the caller holds them
RetOfApplyEdits(r) ==
    [NoRet EXCEPT !.out = r.out, !.outNil = r.outNil, !.edits = r.edits,
                  !.editsNil = r.editsNil, !.err = r.err, !.panic = r.panic]

\* a caller runs ApplyEdits(m, tedits)
CallApplyEdits ==
    /\ call = "none"
    /\ call' = "ApplyEdits"
    /\ ret' = RetOfApplyEdits(ApplyEdits(src, tedits, teditsNil))
    /\ UNCHANGED <<src, edits, editsNil, tedits, teditsNil, elems, rpc>>

NextConv ==
    \/ Validate \/ Apply \/ ApplyBytes
    \/ CallEditsFromDiffEdits \/ CallEditsToDiffEdits
    \/ CallEditsToDiffEditsOnResult \/ CallApplyEdits

SpecConv == InitConv /\ [][NextConv]_vars

(* ------------------------------ adapters ------------------------------- *)
(* An Or_TextDocumentEdit_edits_Elem is a record: tag names the dynamic    *)
(* type of its Value ("nil" when it holds no value), Range and NewText are *)
(* the TextEdit it carries and AnnotationID is the AnnotatedTextEdit's.    *)

MaxElems == 3

PanicUnexpectedType == "unexpected type, expected AnnotatedTextEdit or TextEdit"

\* the TextEdit variant of the union, holding te
TextEditElem(te) ==
    [tag |-> "TextEdit", Range |-> te.Range, NewText |-> te.NewText, AnnotationID |-> ""]

\* the AnnotatedTextEdit variant of the union, holding te with annotation id
AnnotatedElem(te, id) ==
    [tag |-> "AnnotatedTextEdit", Range |-> te.Range, NewText |-> te.NewText,
     AnnotationID |-> id]

\* a union element whose Value has the dynamic type ty, or none for "nil"
ForeignElem(ty) ==
    [tag |-> ty, Range |-> ZeroRange, NewText |-> <<>>, AnnotationID |-> ""]

\* a handler that would step over an element of an unexpected type
asTextEditsLoop_SkipUnknown(es, i, result) ==
    LET kept == {k \in 1..Len(es) : es[k].tag \in {"AnnotatedTextEdit", "TextEdit"}}
        pick[k \in 0..Len(es)] ==
            IF k = 0 THEN <<>>
            ELSE IF k \in kept
                 THEN Append(pick[k - 1], [Range |-> es[k].Range, NewText |-> es[k].NewText])
                 ELSE pick[k - 1]
    IN  [tedits |-> pick[Len(es)], panic |-> PanicNone]

\* a handler that would accept only the TextEdit variant
asTextEditsLoop_PlainOnly(es, i, result) ==
    IF \E k \in 1..Len(es) : es[k].tag # "TextEdit"
    THEN [tedits |-> <<>>, panic |-> PanicUnexpectedType]
    ELSE [tedits |-> [k \in 1..Len(es) |-> [Range |-> es[k].Range, NewText |-> es[k].NewText]],
          panic |-> PanicNone]

\* the loop of AsTextEdits from element i on, result holding what was appended
RECURSIVE asTextEditsLoop(_, _, _)
asTextEditsLoop(es, i, result) ==
    IF i > Len(es) THEN [tedits |-> result, panic |-> PanicNone]
    ELSE LET e == es[i] IN
         IF e.tag = "AnnotatedTextEdit"
         THEN asTextEditsLoop(es, i + 1,
                              Append(result, [Range |-> e.Range, NewText |-> e.NewText]))
         ELSE IF e.tag = "TextEdit"
         THEN asTextEditsLoop(es, i + 1,
                              Append(result, [Range |-> e.Range, NewText |-> e.NewText]))
         ELSE [tedits |-> <<>>, panic |-> PanicUnexpectedType]

\* AsTextEdits(edits): result starts nil, so it is nil when nothing is appended;
\* a panic returns nothing
AsTextEdits(es) ==
    LET r == asTextEditsLoop(es, 1, <<>>)
    IN  [tedits |-> r.tedits, teditsNil |-> Len(r.tedits) = 0, panic |-> r.panic]

\* a wrapper that would choose the annotated variant
AsAnnotatedTextEdits_Annotated(tes, tesNil) ==
    [elems |-> [k \in 1..Len(tes) |-> AnnotatedElem(tes[k], "")],
     elemsNil |-> ~tesNil /\ Len(tes) = 0]

\* AsAnnotatedTextEdits(edits): nil gives an empty non-nil slice; otherwise
\* the result starts nil and gets one TextEdit variant per edit
AsAnnotatedTextEdits(tes, tesNil) ==
    IF tesNil THEN [elems |-> <<>>, elemsNil |-> FALSE]
    ELSE [elems |-> [k \in 1..Len(tes) |->
                        TextEditElem([Range |-> tes[k].Range, NewText |-> tes[k].NewText])],
          elemsNil |-> Len(tes) = 0]

(* -------------------------- adapters: state machine -------------------- *)

\* the TextEdits of the calls: ranges from the start of the document
AdapterTextEdits == {te \in TextEditInputs : te.Range.start = ZeroPosition}

\* the union elements of the calls
ElemInputs ==
    {TextEditElem(te) : te \in AdapterTextEdits}
      \cup {AnnotatedElem(te, "ann") : te \in AdapterTextEdits}
      \cup {ForeignElem("nil"), ForeignElem("SnippetTextEdit")}

InitAdapt ==
    /\ src = <<>> /\ edits = <<>> /\ editsNil = TRUE
    /\ \E k \in 0..MaxElems :
          \/ /\ elems \in [1..k -> ElemInputs]
             /\ tedits = <<>> /\ teditsNil = TRUE
          \/ /\ elems = <<>>
             /\ tedits \in [1..k -> AdapterTextEdits]
             /\ teditsNil \in (IF k = 0 THEN {TRUE, FALSE} ELSE {FALSE})
    /\ call = "none"
    /\ ret = NoRet
    /\ rpc = NoRpc

\* a caller runs AsTextEdits(elems)
CallAsTextEdits ==
    /\ call = "none"
    /\ call' = "AsTextEdits"
    /\ LET r == AsTextEdits(elems)
       IN  ret' = [NoRet EXCEPT !.tedits = r.tedits, !.teditsNil = r.teditsNil,
                                !.panic = r.panic]
    /\ UNCHANGED <<src, edits, editsNil, tedits, teditsNil, elems, rpc>>

\* a caller runs AsAnnotatedTextEdits(tedits)
CallAsAnnotatedTextEdits ==
    /\ call = "none"
    /\ call' = "AsAnnotatedTextEdits"
    /\ LET r == AsAnnotatedTextEdits(tedits, teditsNil)
       IN  ret' = [NoRet EXCEPT !.elems = r.elems, !.elemsNil = r.elemsNil]
    /\ UNCHANGED <<src, edits, editsNil, tedits, teditsNil, elems, rpc>>

\* the caller runs AsTextEdits on what AsAnnotatedTextEdits returned
CallAsTextEditsOnResult ==
    /\ call = "AsAnnotatedTextEdits"
    /\ call' = "Unwrapped"
    /\ LET r == AsTextEdits(ret.elems)
       IN  ret' = [ret EXCEPT !.tedits = r.tedits, !.teditsNil = r.teditsNil,
                              !.panic = r.panic]
    /\ UNCHANGED <<src, edits, editsNil, tedits, teditsNil, elems, rpc>>

NextAdapt == CallAsTextEdits \/ CallAsAnnotatedTextEdits \/ CallAsTextEditsOnResult

SpecAdapt == InitAdapt /\ [][NextAdapt]_vars

(* ------------------------- protocol: Call and detach ------------------- *)
(* A context is a record: err is what Err() returns ("none" for nil; Done  *)
(* has fired exactly when err is not "none"), hasDeadline is the ok result *)
(* of Deadline() and vals gives Value(key) for each key.                   *)

MaxId == 2

Canceled == "context canceled"
DeadlineExceeded == "context deadline exceeded"
ErrResponse == "error response"
ErrWrite == "write failed"
MethodCancelRequest == "$/cancelRequest"

Keys == {"k1", "k2"}
Values == {"nil", "v"}

\* a detached context that would keep its parent's error
detachedErr_Parent(parent) == parent.err

\* detachedContext.Deadline: no deadline
detachedDeadline(parent) == FALSE

\* detachedContext.Done: a nil channel, which never fires
detachedDone(parent) == FALSE

\* detachedContext.Err
detachedErr(parent) == ErrNone

\* detachedContext.Value
detachedValue(parent, key) == parent.vals[key]

\* detach(ctx), as its four methods answer while the parent is as given
detach(parent) ==
    [err |-> detachedErr(parent),
     done |-> detachedDone(parent),
     hasDeadline |-> detachedDeadline(parent),
     vals |-> [k \in Keys |-> detachedValue(parent, k)]]

\* a Call that would always send the notification
ShouldNotify_Always(ctxErr, awaitErr) == TRUE

\* a Call that would decide on the error of Await
ShouldNotify_AwaitErr(ctxErr, awaitErr) == awaitErr # ErrNone

\* the condition of the if statement after Await: ctx.Err() != nil
ShouldNotify(ctxErr, awaitErr) == ctxErr # ErrNone

\* a Call that would report a failed notification
CallReturn_NotifyErr(awaitErr, notifyErr) ==
    IF notifyErr # ErrNone THEN notifyErr ELSE awaitErr

\* the value Call returns: err of Await; the result of Notify is dropped
CallReturn(awaitErr, notifyErr) == awaitErr

(* --------------------------- protocol: state machine ------------------- *)

\* the caller's context of the call in progress
Ctx == [err |-> rpc.ctxErr, hasDeadline |-> rpc.hasDeadline, vals |-> rpc.vals]

InitCall ==
    /\ src = <<>> /\ edits = <<>> /\ editsNil = TRUE
    /\ tedits = <<>> /\ teditsNil = TRUE /\ elems = <<>>
    /\ call = "none" /\ ret = NoRet
    /\ \E fn \in {"Call", "clientConn.Call"}, vs \in [Keys -> Values], dl \in BOOLEAN :
          rpc = [pc |-> "idle", fn |-> fn, id |-> 0, vals |-> vs, hasDeadline |-> dl,
                 ctxErr |-> ErrNone, response |-> "none",
                 awaitErr |-> ErrNone, errAtAwait |-> ErrNone, errAtCheck |-> ErrNone,
                 sent |-> <<>>, notifyErr |-> ErrNone, retErr |-> ErrNone]

\* the environment cancels the caller's context, or its deadline passes
CancelCtx ==
    /\ rpc.ctxErr = ErrNone
    /\ \E e \in {Canceled} \cup (IF rpc.hasDeadline THEN {DeadlineExceeded} ELSE {}) :
          rpc' = [rpc EXCEPT !.ctxErr = e]
    /\ UNCHANGED <<src, edits, editsNil, tedits, teditsNil, elems, call, ret>>

\* call := conn.Call(ctx, method, params): the request gets its identifier
StartCall ==
    /\ rpc.pc = "idle"
    /\ \E id \in 1..MaxId : rpc' = [rpc EXCEPT !.pc = "await", !.id = id]
    /\ UNCHANGED <<src, edits, editsNil, tedits, teditsNil, elems, call, ret>>

\* the peer's response to the request arrives
Respond ==
    /\ rpc.pc = "await" /\ rpc.response = "none"
    /\ \E r \in {"result", "error"} : rpc' = [rpc EXCEPT !.response = r]
    /\ UNCHANGED <<src, edits, editsNil, tedits, teditsNil, elems, call, ret>>

\* err := call.Await(ctx, result) returns: with the response when it is
\* there, with ctx.Err() when ctx is done, with either when both are so
AwaitReturns ==
    /\ rpc.pc = "await"
    /\ \E e \in (IF rpc.response = "result" THEN {ErrNone} ELSE {})
                  \cup (IF rpc.response = "error" THEN {ErrResponse} ELSE {})
                  \cup (IF rpc.ctxErr # ErrNone THEN {rpc.ctxErr} ELSE {}) :
          rpc' = [rpc EXCEPT !.pc = "check", !.awaitErr = e, !.errAtAwait = rpc.ctxErr]
    /\ UNCHANGED <<src, edits, editsNil, tedits, teditsNil, elems, call, ret>>

\* if ctx.Err() != nil
CheckCtxErr ==
    /\ rpc.pc = "check"
    /\ rpc' = [rpc EXCEPT !.pc = IF ShouldNotify(rpc.ctxErr, rpc.awaitErr)
                                 THEN "notify" ELSE "return",
                          !.errAtCheck = rpc.ctxErr]
    /\ UNCHANGED <<src, edits, editsNil, tedits, teditsNil, elems, call, ret>>

\* conn.Notify(detach(ctx), "$/cancelRequest", &CancelParams{ID: call.ID().Raw()}):
\* a context that is done suppresses the write; otherwise the write succeeds or fails
CancelNotify ==
    /\ rpc.pc = "notify"
    /\ LET d == detach(Ctx) IN
       \E ok \in (IF d.err # ErrNone \/ d.done THEN {FALSE} ELSE {TRUE, FALSE}) :
          rpc' = [rpc EXCEPT
                    !.pc = "return",
                    !.sent = Append(@, [method |-> MethodCancelRequest, id |-> rpc.id,
                                        ctx |-> d, written |-> ok]),
                    !.notifyErr = IF ok THEN ErrNone
                                  ELSE IF d.err # ErrNone THEN d.err ELSE ErrWrite]
    /\ UNCHANGED <<src, edits, editsNil, tedits, teditsNil, elems, call, ret>>

\* return err
Return ==
    /\ rpc.pc = "return"
    /\ rpc' = [rpc EXCEPT !.pc = "done",
                          !.retErr = CallReturn(rpc.awaitErr, rpc.notifyErr)]
    /\ UNCHANGED <<src, edits, editsNil, tedits, teditsNil, elems, call, ret>>

NextCall ==
    \/ CancelCtx \/ StartCall \/ Respond \/ AwaitReturns
    \/ CheckCtxErr \/ CancelNotify \/ Return

SpecCall == InitCall /\ [][NextCall]_vars

(* ------------------------- protocol: handlers --------------------------- *)
(* An error of a handler is a record [code, message]; NilError stands for  *)
(* a nil error. What a handler returns is [result, err], with dispatched   *)
(* telling whether the dispatch function was invoked.                      *)

NilError == [code |-> 0, message |-> ""]

\* jsonrpc2.NewError(-32800, "JSON RPC cancelled")
RequestCancelledError == [code |-> -32800, message |-> "JSON RPC cancelled"]

\* a handler that would dispatch a cancelled request
ClientHandler_NoCheck(ctxErr, dispatch) ==
    [result |-> dispatch.result, err |-> dispatch.err, dispatched |-> TRUE]

\* the function ClientHandler returns, called with a context whose Err() is
\* ctxErr; dispatch is what clientDispatch(ctx, client, req) returns
ClientHandler(ctxErr, dispatch) ==
    IF ctxErr # ErrNone
    THEN [result |-> "nil", err |-> RequestCancelledError, dispatched |-> FALSE]
    ELSE [result |-> dispatch.result, err |-> dispatch.err, dispatched |-> TRUE]

\* the function ServerHandler returns; dispatch is what
\* serverDispatch(ctx, server, req) returns
ServerHandler(ctxErr, dispatch) ==
    IF ctxErr # ErrNone
    THEN [result |-> "nil", err |-> RequestCancelledError, dispatched |-> FALSE]
    ELSE [result |-> dispatch.result, err |-> dispatch.err, dispatched |-> TRUE]

\* the requests of the calls and what dispatching them would return
Methods == {"initialize", "shutdown"}
DispatchResults ==
    [result : {"nil", "r1", "r2"},
     err : {NilError, [code |-> -32601, message |-> "method not found"],
            [code |-> -32603, message |-> "internal error"]}]

InitHandler ==
    /\ src = <<>> /\ edits = <<>> /\ editsNil = TRUE
    /\ tedits = <<>> /\ teditsNil = TRUE /\ elems = <<>>
    /\ call = "none" /\ ret = NoRet
    /\ \E m \in Methods, e \in {ErrNone, Canceled, DeadlineExceeded}, d \in DispatchResults :
          rpc = [pc |-> "request", method |-> m, ctxErr |-> e, dispatch |-> d]

\* the connection calls the client's handler with the request
CallClientHandler ==
    /\ call = "none" /\ rpc.pc = "request"
    /\ call' = "ClientHandler"
    /\ ret' = ClientHandler(rpc.ctxErr, rpc.dispatch)
    /\ UNCHANGED <<src, edits, editsNil, tedits, teditsNil, elems, rpc>>

\* the connection calls the server's handler with the request
CallServerHandler ==
    /\ call = "none" /\ rpc.pc = "request"
    /\ call' = "ServerHandler"
    /\ ret' = ServerHandler(rpc.ctxErr, rpc.dispatch)
    /\ UNCHANGED <<src, edits, editsNil, tedits, teditsNil, elems, rpc>>

NextHandler == CallClientHandler \/ CallServerHandler

SpecHandler == InitHandler /\ [][NextHandler]_vars

(* --------------------------- sorting: state machine -------------------- *)

MaxSortEdits == 3

\* offsets for the comparator: the ends of the int range and values near 0
ExtremeOffsets == {MinInt, -1, 0, 1, MaxInt}

\* the edits given to the comparator and the sort
SortInputs == [Start : ExtremeOffsets, End : {0, MaxInt}, New : {<<>>}]

InitSort ==
    /\ src = <<>>
    /\ \E k \in 1..MaxSortEdits : edits \in [1..k -> SortInputs]
    /\ editsNil = FALSE
    /\ tedits = <<>> /\ teditsNil = TRUE /\ elems = <<>>
    /\ call = "none" /\ ret = NoRet
    /\ rpc = NoRpc

\* the sort asks editsSort(edits).Less(i, j)
CallLess ==
    /\ call = "none"
    /\ \E i, j \in 1..Len(edits) :
          ret' = [less |-> Less(edits, i, j), i |-> i, j |-> j]
    /\ call' = "Less"
    /\ UNCHANGED <<src, edits, editsNil, tedits, teditsNil, elems, rpc>>

\* a caller runs sortEdits on its own copy of edits
CallSortEdits ==
    /\ call = "none"
    /\ ret' = [NoRet EXCEPT !.edits = sortEdits(edits), !.editsNil = FALSE]
    /\ call' = "sortEdits"
    /\ UNCHANGED <<src, edits, editsNil, tedits, teditsNil, elems, rpc>>

NextSort == CallLess \/ CallSortEdits

SpecSort == InitSort /\ [][NextSort]_vars

(* ------------------------ SelectCompletionTextEdit --------------------- *)
(* The value held by item.TextEdit is a record: tag names its dynamic type *)
(* ("nil" when nothing is held); Range and NewText are those of a TextEdit, *)
(* NewText, Insert and Replace those of an InsertReplaceEdit.              *)

ErrUnsupportedEdit == "unsupported edit type"

\* TextEdit{}
ZeroTextEdit == [Range |-> ZeroRange, NewText |-> <<>>]

\* a faulty selection: the two ranges are taken the wrong way round
SelectCompletionTextEdit_Swapped(v, useReplaceMode) ==
    IF v.tag = "TextEdit"
    THEN [edit |-> [Range |-> v.Range, NewText |-> v.NewText], err |-> ErrNone]
    ELSE IF v.tag = "InsertReplaceEdit"
    THEN IF useReplaceMode
         THEN [edit |-> [Range |-> v.Insert, NewText |-> v.NewText], err |-> ErrNone]
         ELSE [edit |-> [Range |-> v.Replace, NewText |-> v.NewText], err |-> ErrNone]
    ELSE [edit |-> ZeroTextEdit, err |-> ErrUnsupportedEdit]

\* SelectCompletionTextEdit(item, useReplaceMode), v being item.TextEdit.Value
SelectCompletionTextEdit(v, useReplaceMode) ==
    IF v.tag = "TextEdit"
    THEN [edit |-> [Range |-> v.Range, NewText |-> v.NewText], err |-> ErrNone]
    ELSE IF v.tag = "InsertReplaceEdit"
    THEN IF useReplaceMode
         THEN [edit |-> [Range |-> v.Replace, NewText |-> v.NewText], err |-> ErrNone]
         ELSE [edit |-> [Range |-> v.Insert, NewText |-> v.NewText], err |-> ErrNone]
    ELSE [edit |-> ZeroTextEdit, err |-> ErrUnsupportedEdit]

\* the ranges of the completion items: from the start of the document
CompletionRanges == {r \in [start : Positions, end : Positions] : r.start = ZeroPosition}

\* the values item.TextEdit holds in the calls
CompletionValues ==
    [tag : {"TextEdit"}, Range : CompletionRanges, NewText : {<<88>>, <<89>>},
     Insert : {ZeroRange}, Replace : {ZeroRange}]
      \cup [tag : {"InsertReplaceEdit"}, Range : {ZeroRange}, NewText : {<<88>>, <<89>>},
            Insert : CompletionRanges, Replace : CompletionRanges]
      \cup [tag : {"nil", "AnnotatedTextEdit"}, Range : {ZeroRange}, NewText : {<<>>},
            Insert : {ZeroRange}, Replace : {ZeroRange}]

\* elems holds the one value of item.TextEdit
InitSelect ==
    /\ src = <<>> /\ edits = <<>> /\ editsNil = TRUE
    /\ tedits = <<>> /\ teditsNil = TRUE
    /\ \E v \in CompletionValues : elems = <<v>>
    /\ call = "none" /\ ret = NoRet
    /\ rpc = NoRpc

\* a caller runs SelectCompletionTextEdit(item, useReplaceMode)
CallSelectCompletionTextEdit ==
    /\ call = "none"
    /\ call' = "SelectCompletionTextEdit"
    /\ \E useReplaceMode \in BOOLEAN :
          LET r == SelectCompletionTextEdit(elems[1], useReplaceMode)
          IN  ret' = [edit |-> r.edit, err |-> r.err, useReplaceMode |-> useReplaceMode]
    /\ UNCHANGED <<src, edits, editsNil, tedits, teditsNil, elems, rpc>>

NextSelect == CallSelectCompletionTextEdit

SpecSelect == InitSelect /\ [][NextSelect]_vars

(* ----------------------- reference definitions ------------------------- *)
(* Written from the meaning of the properties, not from the code.          *)

\* (Start, End) of a sorts strictly before (Start, End) of b
KeyBefore(a, b) == a.Start < b.Start \/ (a.Start = b.Start /\ a.End < b.End)

SameKey(a, b) == a.Start = b.Start /\ a.End = b.End

\* position of es[i] in the stable (Start, End) order of es
Rank(es, i) ==
    1 + Cardinality({j \in 1..Len(es) :
                       KeyBefore(es[j], es[i]) \/ (SameKey(es[j], es[i]) /\ j < i)})

\* es in stable (Start, End) order
StableOrder(es) ==
    [r \in 1..Len(es) |-> es[CHOOSE i \in 1..Len(es) : Rank(es, i) = r]]

\* 0 <= Start <= End <= n
InBounds(e, n) == 0 <= e.Start /\ e.Start <= e.End /\ e.End <= n

\* es[i] starts before the End of the edit before it
OverlapsAt(es, i) == i >= 2 /\ es[i].Start < es[i - 1].End

\* sum over the edits of len(New) - (End - Start)
RECURSIVE SumDelta(_)
SumDelta(es) ==
    IF es = <<>> THEN 0
    ELSE Len(Head(es).New) - (Head(es).End - Head(es).Start) + SumDelta(Tail(es))

\* es[i].New + src[es[i].End : start of the next edit] + ... to the end of s
RECURSIVE PatchFrom(_, _, _)
PatchFrom(s, es, i) ==
    IF i > Len(es) THEN <<>>
    ELSE es[i].New
         \o Slice(s, es[i].End, IF i < Len(es) THEN es[i + 1].Start ELSE Len(s))
         \o PatchFrom(s, es, i + 1)

\* src[0:e1.Start] + e1.New + src[e1.End:e2.Start] + ... + src[en.End:len(src)]
Patched(s, es) ==
    IF es = <<>> THEN s ELSE Slice(s, 0, es[1].Start) \o PatchFrom(s, es, 1)

\* the bytes of s outside every edit range, in order
RECURSIVE KeptFrom(_, _, _)
KeptFrom(s, es, i) ==
    IF i > Len(s) THEN <<>>
    ELSE (IF \E k \in 1..Len(es) : es[k].Start < i /\ i <= es[k].End
          THEN <<>> ELSE <<s[i]>>)
         \o KeptFrom(s, es, i + 1)

\* the elements of q that are bytes of s, in order
RECURSIVE SrcBytesOf(_, _)
SrcBytesOf(q, s) ==
    IF q = <<>> THEN <<>>
    ELSE (IF \E i \in 1..Len(s) : s[i] = Head(q) THEN <<Head(q)>> ELSE <<>>)
         \o SrcBytesOf(Tail(q), s)

\* the elements of q that are not bytes of s, in order
RECURSIVE NewBytesOf(_, _)
NewBytesOf(q, s) ==
    IF q = <<>> THEN <<>>
    ELSE (IF \E i \in 1..Len(s) : s[i] = Head(q) THEN <<>> ELSE <<Head(q)>>)
         \o NewBytesOf(Tail(q), s)

\* the replacement texts of es, concatenated in order
RECURSIVE AllNew(_)
AllNew(es) == IF es = <<>> THEN <<>> ELSE Head(es).New \o AllNew(Tail(es))

\* the bytes of the buffer are pairwise distinct and none occurs in a
\* replacement text, so every output byte tells where it came from
Marked ==
    /\ \A i, j \in 1..Len(src) : src[i] = src[j] => i = j
    /\ \A k \in 1..Len(edits) : \A m \in 1..Len(edits[k].New) :
          \A i \in 1..Len(src) : src[i] # edits[k].New[m]

\* the edits of es whose (Start, End) is that of e, in order
RECURSIVE WithKey(_, _)
WithKey(es, e) ==
    IF es = <<>> THEN <<>>
    ELSE (IF SameKey(Head(es), e) THEN <<Head(es)>> ELSE <<>>) \o WithKey(Tail(es), e)

Applied == call \in {"apply", "applyBytes"}

Validated == call = "validate"

\* validate accepts the input
Accepted == validate(src, edits, editsNil).err = ErrNone

(* -------------------------------- claims ------------------------------- *)

\* C1 (size law): when validate accepts the edits, apply returns a string of
\* length len(src) + sum(len(New) - (End - Start)), and that is the size
\* validate returns.
C1_SizeLaw ==
    /\ (Applied /\ Accepted) =>
          /\ ret.err = ErrNone /\ ret.panic = PanicNone
          /\ Len(ret.out) = Len(src) + SumDelta(edits)
          /\ Len(ret.out) = validate(src, edits, editsNil).size
    /\ (Validated /\ ret.err = ErrNone) => ret.size = Len(src) + SumDelta(edits)

C1_Witness ==
    /\ call = "apply" /\ ret.err = ErrNone /\ Len(edits) = 3
    /\ SumDelta(edits) < 0 /\ ~IsSorted(edits)

\* C2 (patch result): for accepted edits e1..en in stable (Start, End) order,
\* apply returns src[0:e1.Start] + e1.New + src[e1.End:e2.Start] + ... +
\* en.New + src[en.End:]; the source bytes outside all edit ranges appear
\* exactly once and in their original order.
C2_PatchResult ==
    (Applied /\ Accepted) =>
        /\ ret.err = ErrNone /\ ret.panic = PanicNone
        /\ ret.out = Patched(src, StableOrder(edits))
        /\ Marked => SrcBytesOf(ret.out, src) = KeptFrom(src, edits, 1)
        /\ (src = PackageMain /\ edits[1].Start = 0) => ret.out = PackageMain
        /\ (src = PackageMain /\ edits[1].Start = 8) => ret.out = PackageTest

C2_Witness ==
    /\ call = "apply" /\ ret.err = ErrNone /\ Marked
    /\ Len(edits) = 3 /\ ~IsSorted(edits)
    /\ Len(KeptFrom(src, edits, 1)) = 2
    /\ Len(ret.out) = 4

\* C3 (stable tie-break): edits with equal Start and End keep their input
\* order in what validate returns and in what apply writes; "ab" with
\* [{1,1,"X"},{1,1,"Y"}] gives "aXYb", the reversed input "aYXb".
C3_StableTieBreak ==
    /\ (Validated /\ ret.err = ErrNone) =>
          \A k \in 1..Len(edits) : WithKey(ret.edits, edits[k]) = WithKey(edits, edits[k])
    /\ (Applied /\ Accepted /\ Marked /\ \A k \in 1..Len(edits) : SameKey(edits[k], edits[1]))
          => NewBytesOf(ret.out, src) = AllNew(edits)
    /\ (Applied /\ src = <<97, 98>>) =>
          /\ edits = <<Ed(1, 1, <<88>>), Ed(1, 1, <<89>>)>> => ret.out = <<97, 88, 89, 98>>
          /\ edits = <<Ed(1, 1, <<89>>), Ed(1, 1, <<88>>)>> => ret.out = <<97, 89, 88, 98>>

C3_Witness ==
    /\ call = "apply" /\ src = <<97, 98>>
    /\ edits = <<Ed(1, 1, <<89>>), Ed(1, 1, <<88>>)>>
    /\ ret.out = <<97, 89, 88, 98>>

\* C4 (overlap rule): when every edit has 0 <= Start <= End <= len(src),
\* validate fails with the overlapping-edits error exactly when, in stable
\* (Start, End) order, some edit starts before the End of the edit before it,
\* and accepts otherwise: touching edits, an insertion at the Start of a
\* following non-empty edit and several insertions at one offset are accepted.
C4_OverlapRule ==
    (Validated /\ \A k \in 1..Len(edits) : InBounds(edits[k], Len(src))) =>
        /\ ret.err = ErrOverlap <=>
              \E i \in 1..Len(edits) : OverlapsAt(StableOrder(edits), i)
        /\ ret.err \in {ErrOverlap, ErrNone}
        /\ (Len(edits) = 2 /\ edits[2].Start = edits[1].End) => ret.err = ErrNone
        /\ (\A k \in 1..Len(edits) : edits[k].Start = edits[k].End /\ SameKey(edits[k], edits[1]))
              => ret.err = ErrNone

C4_Witness ==
    /\ Validated /\ ret.err = ErrOverlap /\ Len(edits) = 3 /\ ~IsSorted(edits)
    /\ \A k \in 1..Len(edits) : InBounds(edits[k], Len(src))

\* accepted: an insertion, a non-empty edit starting there, an edit touching it
C4_WitnessTouching ==
    /\ Validated /\ ret.err = ErrNone /\ Len(edits) = 3
    /\ \E i, j, k \in 1..3 :
          /\ edits[i].Start = edits[i].End
          /\ edits[j].Start = edits[i].Start /\ edits[j].End > edits[j].Start
          /\ edits[k].Start = edits[j].End

\* the input is the overlap example: {2,5} and {4,6}, in either order
IsOverlapPair ==
    /\ Len(edits) = 2
    /\ \E i, j \in 1..2 :
          /\ i # j
          /\ edits[i].Start = 2 /\ edits[i].End = 5
          /\ edits[j].Start = 4 /\ edits[j].End = 6

\* C5 as stated (overlap example): {2,5},{4,6} fails with the
\* overlapping-edits error over a buffer of any length.
C5_OverlapAnyBuffer ==
    ((Validated \/ Applied) /\ IsOverlapPair) => ret.err = ErrOverlap

\* C5 (overlap example, amended): {2,5},{4,6}, in either order, fails with the
\* overlapping-edits error over every buffer of at least 6 bytes; over a
\* shorter buffer it fails with the out-of-bounds error.
C5_OverlapExample ==
    ((Validated \/ Applied) /\ IsOverlapPair) =>
        ret.err = IF Len(src) >= 6 THEN ErrOverlap ELSE ErrOutOfBounds

C5_Witness ==
    /\ Validated /\ IsOverlapPair /\ edits[1].Start = 4
    /\ Len(src) = 6 /\ ret.err = ErrOverlap

\* some edit has Start < 0, Start > End or End > len(src)
HasOutOfBounds == \E k \in 1..Len(edits) : ~InBounds(edits[k], Len(src))

\* the error validate meets first: in stable (Start, End) order, an overlap
\* before the first out-of-bounds edit, else that edit
FirstError ==
    LET so == StableOrder(edits)
        bad == {i \in 1..Len(so) : ~InBounds(so[i], Len(src))}
        f == CHOOSE i \in bad : \A j \in bad : i <= j
    IN  IF \E i \in 1..(f - 1) : OverlapsAt(so, i) THEN ErrOverlap ELSE ErrOutOfBounds

\* C6 as stated (bounds detection): a sequence holding an edit with
\* Start < 0, Start > End or End > len(src) fails with the out-of-bounds
\* error.
C6_AlwaysOutOfBounds ==
    ((Validated \/ Applied) /\ HasOutOfBounds) => ret.err = ErrOutOfBounds

\* C6 (bounds detection, amended): a sequence holding an edit with Start < 0,
\* Start > End or End > len(src) makes validate and apply fail: with the
\* out-of-bounds error, unless validate first meets, in sorted order, an edit
\* that starts before the End of the edit before it, and then with the
\* overlapping-edits error.  {0,100} over a 10-byte buffer is out of bounds.
C6_BoundsDetection ==
    /\ ((Validated \/ Applied) /\ HasOutOfBounds) =>
          /\ ret.err = FirstError
          /\ ret.panic = PanicNone
    /\ ((Validated \/ Applied) /\ Len(src) = 10 /\ edits = <<Ed(0, 100, <<>>)>>) =>
          ret.err = ErrOutOfBounds

C6_Witness ==
    /\ call = "apply" /\ Len(src) = 10 /\ edits = <<Ed(0, 100, <<>>)>>
    /\ ret.err = ErrOutOfBounds

\* an overlap is met before the out-of-bounds edit
C6_WitnessOverlapFirst ==
    /\ Validated /\ HasOutOfBounds /\ ret.err = ErrOverlap

\* the arrangements of es
Perms(es) ==
    {[i \in 1..Len(es) |-> es[p[i]]] :
        p \in {f \in [1..Len(es) -> 1..Len(es)] :
                 \A i, j \in 1..Len(es) : f[i] = f[j] => i = j}}

\* S is in (Start, End) order, in bounds and free of overlaps
SortedValid(S) ==
    /\ \A i \in 2..Len(S) : ~KeyBefore(S[i], S[i - 1])
    /\ \A i \in 1..Len(S) : InBounds(S[i], Len(src)) /\ ~OverlapsAt(S, i)

\* C7 as stated (order-independence): validate returns for a permutation the
\* very result (edits, size, no error) it returns for the sorted,
\* non-overlapping sequence.
C7_SameResult ==
    Validated =>
        \A S \in Perms(edits) : SortedValid(S) =>
            LET v == validate(src, S, FALSE) IN
            /\ ret.err = v.err /\ ret.size = v.size /\ ret.edits = v.edits

\* C7 (order-independence, amended): for a sorted, non-overlapping sequence
\* and any permutation of it validate returns no error, the same size and
\* edit sequences with the same (Start, End) at every position; the two
\* sequences are equal when the permutation keeps the relative order of the
\* edits that share both Start and End.
C7_OrderIndependence ==
    Validated =>
        \A S \in Perms(edits) : SortedValid(S) =>
            LET v == validate(src, S, FALSE) IN
            /\ v.err = ErrNone /\ ret.err = ErrNone
            /\ ret.size = v.size
            /\ Len(ret.edits) = Len(v.edits)
            /\ \A i \in 1..Len(v.edits) : SameKey(ret.edits[i], v.edits[i])
            /\ (\A k \in 1..Len(edits) : WithKey(edits, edits[k]) = WithKey(S, edits[k]))
                  => ret.edits = v.edits

C7_Witness ==
    /\ Validated /\ ret.err = ErrNone /\ Len(edits) = 3 /\ ~IsSorted(edits)
    /\ \E i, j \in 1..3 : i # j /\ SameKey(edits[i], edits[j]) /\ edits[i].New # edits[j].New

\* C8 (no-op law): with an empty or nil edit sequence apply and applyBytes
\* succeed and return the source, and validate returns size len(src).
C8_NoOp ==
    edits = <<>> =>
        /\ Applied => ret.out = src /\ ret.err = ErrNone /\ ret.panic = PanicNone
        /\ Validated => ret.size = Len(src) /\ ret.err = ErrNone

C8_Witness ==
    /\ call = "applyBytes" /\ edits = <<>> /\ editsNil
    /\ Len(src) = MaxValidLen /\ ret.out = src

\* C9 (no output on failure): when validate rejects the edits it returns a
\* nil edit sequence and size 0 with the error; apply returns the empty string
\* with that error, never a partially patched buffer.
C9_NoOutputOnFailure ==
    /\ (Validated /\ ret.err # ErrNone) =>
          ret.edits = <<>> /\ ret.editsNil /\ ret.size = 0
    /\ (Applied /\ ~Accepted) =>
          /\ ret.err = validate(src, edits, editsNil).err
          /\ ret.out = <<>> /\ ret.panic = PanicNone

C9_Witness ==
    /\ call = "apply" /\ ret.err = ErrOverlap /\ ret.out = <<>>
    /\ Len(edits) = 3 /\ Len(src) = MaxValidLen

\* C10 (size assertion): apply never panics with "wrong size": it returns
\* validate's error, or an output as long as the size validate computed.
C10_NoWrongSize ==
    Applied =>
        /\ ret.panic # PanicWrongSize
        /\ \/ ret.err # ErrNone /\ ~Accepted
           \/ /\ ret.err = ErrNone /\ ret.panic = PanicNone
              /\ Len(ret.out) = validate(src, edits, editsNil).size

C10_Witness ==
    /\ call = "apply" /\ ret.err = ErrNone /\ ret.panic = PanicNone
    /\ Len(edits) = 3 /\ Len(ret.out) > Len(src)

(* ------------------------- claims: conversions ------------------------- *)

\* C11 (inputs are never mutated): no call of validate, apply, applyBytes,
\* ApplyEdits, EditsFromDiffEdits or EditsToDiffEdits changes the caller's
\* source buffer (Mapper.Content), the caller's Edit slice or the caller's
\* TextEdit slice, whether it succeeds or fails and whether or not it sorts.
C11_InputsUnchanged ==
    [][/\ src' = src
       /\ edits' = edits /\ editsNil' = editsNil
       /\ tedits' = tedits /\ teditsNil' = teditsNil]_vars

\* validate sorted an unsorted input and the caller's slice is still unsorted
C11_Witness ==
    /\ call = "validate" /\ ret.err = ErrNone
    /\ ~IsSorted(edits) /\ IsSorted(ret.edits) /\ Len(ret.edits) = 2

\* the (Start, End) offsets the Mapper gives for the Range of a TextEdit
OffsetsOf(te) ==
    LET r == RangeOffsets(src, te.Range) IN [Start |-> r.start, End |-> r.end]

\* C12 (wire order): when EditsFromDiffEdits succeeds, its i-th TextEdit is
\* the Mapper's Range for, and the replacement text of, the i-th edit of the
\* stable (Start, End) order of the input; the output is as long as the input
\* and its offsets are in non-decreasing (Start, End) order.
C12_WireOrder ==
    (call = "EditsFromDiffEdits" /\ ret.err = ErrNone) =>
        LET so == StableOrder(edits) IN
        /\ ~ret.teditsNil
        /\ Len(ret.tedits) = Len(edits)
        /\ \A i \in 1..Len(edits) :
              /\ ret.tedits[i].Range = OffsetRange(src, so[i].Start, so[i].End).rng
              /\ ret.tedits[i].NewText = so[i].New
        /\ \A i \in 2..Len(ret.tedits) :
              ~KeyBefore(OffsetsOf(ret.tedits[i]), OffsetsOf(ret.tedits[i - 1]))

C12_Witness ==
    /\ call = "EditsFromDiffEdits" /\ ret.err = ErrNone
    /\ Len(edits) = 2 /\ ~IsSorted(edits)
    /\ edits[1].New # edits[2].New
    /\ ret.tedits[1].NewText = edits[2].New
    /\ ret.tedits[1].Range.start.line = 1

\* the Mapper is consistent on the offsets of every edit
ConsistentMapper ==
    \A k \in 1..Len(edits) :
        LET r == OffsetRange(src, edits[k].Start, edits[k].End) IN
        /\ r.err = ErrNone
        /\ RangeOffsets(src, r.rng) =
              [start |-> edits[k].Start, end |-> edits[k].End, err |-> ErrNone]

\* the number of times e occurs in es
Count(es, e) == Cardinality({i \in 1..Len(es) : es[i] = e})

\* C13 (round trip): with a consistent Mapper, EditsToDiffEdits applied to
\* the result of EditsFromDiffEdits succeeds and returns the stable
\* (Start, End) order of the input: the same edits, as often.
C13_RoundTrip ==
    (call = "RoundTrip" /\ ConsistentMapper) =>
        /\ ret.err = ErrNone /\ ~ret.editsNil
        /\ ret.edits = StableOrder(edits)
        /\ \A k \in 1..Len(edits) : Count(ret.edits, edits[k]) = Count(edits, edits[k])
        /\ Len(ret.edits) = Len(edits)

C13_Witness ==
    /\ call = "RoundTrip" /\ ConsistentMapper /\ ret.err = ErrNone
    /\ Len(edits) = 2 /\ ~IsSorted(edits)
    /\ edits[1].Start < edits[1].End
    /\ ret.edits = <<edits[2], edits[1]>>

\* the Mapper cannot resolve the offsets of some Edit
SomeOffsetFails ==
    \E k \in 1..Len(edits) : OffsetRange(src, edits[k].Start, edits[k].End).err # ErrNone

\* the Mapper cannot resolve the Range of some TextEdit
SomeRangeFails ==
    \E k \in 1..Len(tedits) : RangeOffsets(src, tedits[k].Range).err # ErrNone

\* what C14 says of a state in which a conversion has returned
MappingFailureResult ==
    /\ (call = "EditsFromDiffEdits" /\ SomeOffsetFails) =>
          ret.err = ErrMapping /\ ret.tedits = <<>> /\ ret.teditsNil
    /\ (call = "EditsToDiffEdits" /\ SomeRangeFails) =>
          ret.err = ErrMapping /\ ret.edits = <<>> /\ ret.editsNil
    /\ (call = "ApplyEdits" /\ SomeRangeFails) =>
          /\ ret.err = ErrMapping
          /\ ret.edits = <<>> /\ ret.editsNil
          /\ ret.out = <<>> /\ ret.outNil

\* C14 (mapping failure): when the Mapper fails on some edit,
\* EditsFromDiffEdits, EditsToDiffEdits and ApplyEdits return the Mapper's
\* error and nil results, also when earlier edits were converted, and
\* Mapper.Content is unchanged.
C14_MappingFailure ==
    [][MappingFailureResult' /\ src' = src]_vars

\* the first TextEdit resolves, the second does not
C14_Witness ==
    /\ call = "ApplyEdits" /\ Len(tedits) = 2
    /\ RangeOffsets(src, tedits[1].Range).err = ErrNone
    /\ RangeOffsets(src, tedits[2].Range).err # ErrNone
    /\ ret.err = ErrMapping /\ ret.outNil /\ ret.editsNil

(* --------------------------- claims: adapters -------------------------- *)

\* every element holds a TextEdit or an AnnotatedTextEdit
AllRecognized(es) ==
    \A i \in 1..Len(es) : es[i].tag \in {"TextEdit", "AnnotatedTextEdit"}

\* C15 (adapter normalization): when every element of the input is a
\* TextEdit or an AnnotatedTextEdit, AsTextEdits returns a list as long as
\* the input whose i-th element is the range and new text of the i-th input
\* element, without its annotation.
C15_Normalization ==
    (call = "AsTextEdits" /\ AllRecognized(elems)) =>
        /\ ret.panic = PanicNone
        /\ Len(ret.tedits) = Len(elems)
        /\ \A i \in 1..Len(elems) :
              ret.tedits[i] = [Range |-> elems[i].Range, NewText |-> elems[i].NewText]

C15_Witness ==
    /\ call = "AsTextEdits" /\ Len(elems) = 3
    /\ elems[1].tag = "AnnotatedTextEdit" /\ elems[1].AnnotationID = "ann"
    /\ elems[2].tag = "TextEdit" /\ elems[3].tag = "AnnotatedTextEdit"
    /\ elems[1].NewText # elems[2].NewText /\ elems[1].Range # elems[3].Range
    /\ Len(ret.tedits) = 3

\* C16 (closed union): AsTextEdits panics exactly when some element of its
\* input holds neither a TextEdit nor an AnnotatedTextEdit (an element with
\* no value included), and then it returns nothing, not even the edits that
\* came before that element.
C16_ClosedUnion ==
    call = "AsTextEdits" =>
        /\ (ret.panic = PanicUnexpectedType) <=> ~AllRecognized(elems)
        /\ ret.panic \in {PanicNone, PanicUnexpectedType}
        /\ ~AllRecognized(elems) => (ret.tedits = <<>> /\ ret.teditsNil)

\* two recognized elements, then one without a value
C16_Witness ==
    /\ call = "AsTextEdits" /\ Len(elems) = 3
    /\ elems[1].tag = "TextEdit" /\ elems[2].tag = "AnnotatedTextEdit"
    /\ elems[3].tag = "nil"
    /\ ret.panic = PanicUnexpectedType /\ ret.tedits = <<>>

C16_WitnessForeign ==
    /\ call = "AsTextEdits" /\ Len(elems) = 2
    /\ elems[1].tag = "SnippetTextEdit" /\ elems[2].tag = "TextEdit"
    /\ ret.panic = PanicUnexpectedType

\* C17 (adapter wrapping): AsAnnotatedTextEdits returns one union element
\* per input TextEdit, in input order, each the TextEdit variant with the
\* same range and new text; AsTextEdits of that result has the elements of
\* the input in the same order.
C17_Wrapping ==
    /\ call \in {"AsAnnotatedTextEdits", "Unwrapped"} =>
          /\ Len(ret.elems) = Len(tedits)
          /\ \A i \in 1..Len(tedits) :
                /\ ret.elems[i].tag = "TextEdit"
                /\ ret.elems[i].Range = tedits[i].Range
                /\ ret.elems[i].NewText = tedits[i].NewText
    /\ call = "Unwrapped" =>
          /\ ret.panic = PanicNone
          /\ ret.tedits = tedits

C17_Witness ==
    /\ call = "Unwrapped" /\ Len(tedits) = 3
    /\ tedits[1] # tedits[2] /\ tedits[2] # tedits[3] /\ tedits[1].Range # tedits[3].Range
    /\ ret.tedits = tedits /\ Len(ret.elems) = 3

(* --------------------------- claims: protocol -------------------------- *)

\* C18 (cancellation relay): when the caller's context is cancelled by the
\* time Await returns, Call and clientConn.Call make exactly one
\* "$/cancelRequest" notification with the identifier of the call, on a
\* context that is not cancelled, so that the cancellation does not suppress
\* the send.
C18_CancelRelay ==
    (rpc.pc \in {"return", "done"} /\ rpc.errAtAwait # ErrNone) =>
        /\ Len(rpc.sent) = 1
        /\ rpc.sent[1].method = MethodCancelRequest
        /\ rpc.sent[1].id = rpc.id
        /\ rpc.sent[1].ctx.err = ErrNone /\ ~rpc.sent[1].ctx.done
        /\ rpc.notifyErr \notin {Canceled, DeadlineExceeded}

\* the response and the cancellation were both there and Await took the response
C18_Witness ==
    /\ rpc.pc = "done" /\ rpc.fn = "clientConn.Call" /\ rpc.id = 2
    /\ rpc.errAtAwait = Canceled /\ rpc.response = "result" /\ rpc.awaitErr = ErrNone
    /\ Len(rpc.sent) = 1 /\ rpc.sent[1].written /\ rpc.sent[1].id = 2

C18_WitnessDeadline ==
    /\ rpc.pc = "done" /\ rpc.fn = "Call"
    /\ rpc.errAtAwait = DeadlineExceeded /\ rpc.awaitErr = DeadlineExceeded
    /\ Len(rpc.sent) = 1 /\ rpc.sent[1].written

\* C19 (cancel-notification failures are swallowed): Call and
\* clientConn.Call return the error of Await whether the notification was
\* written or failed, and the notification is attempted at most once.
C19_NotifyFailureSwallowed ==
    /\ Len(rpc.sent) <= 1
    /\ rpc.pc = "done" => rpc.retErr = rpc.awaitErr

\* the write failed and the response's result is still returned
C19_Witness ==
    /\ rpc.pc = "done" /\ Len(rpc.sent) = 1 /\ ~rpc.sent[1].written
    /\ rpc.notifyErr = ErrWrite
    /\ rpc.awaitErr = ErrNone /\ rpc.retErr = ErrNone

C19_WitnessCancelled ==
    /\ rpc.pc = "done" /\ Len(rpc.sent) = 1 /\ ~rpc.sent[1].written
    /\ rpc.awaitErr = Canceled /\ rpc.retErr = Canceled

\* C20 (detached context): in every state, also after the parent context
\* was cancelled or its deadline passed, the context detach returns has no
\* error, a Done that has not fired and no deadline, and its Value(key) is
\* the parent's Value(key) for every key.
C20_Detached ==
    LET d == detach(Ctx) IN
    /\ d.err = ErrNone
    /\ ~d.done
    /\ ~d.hasDeadline
    /\ \A k \in Keys : d.vals[k] = rpc.vals[k]

\* the parent's deadline has passed when the detached context is used
C20_Witness ==
    /\ rpc.pc = "return" /\ Len(rpc.sent) = 1
    /\ rpc.ctxErr = DeadlineExceeded /\ rpc.hasDeadline
    /\ rpc.vals["k1"] = "v" /\ rpc.vals["k2"] = "nil"
    /\ rpc.sent[1].ctx.vals = rpc.vals /\ rpc.sent[1].ctx.err = ErrNone

\* Await returned the response while the context was not cancelled
ResponseBeforeCancel ==
    /\ rpc.pc \in {"check", "notify", "return", "done"}
    /\ rpc.errAtAwait = ErrNone

\* C21 as stated (cancel only while awaiting): a call whose Await returned
\* its response before the context was cancelled never makes a
\* "$/cancelRequest" notification.
C21_NoNotifyAfterResponse ==
    ResponseBeforeCancel => rpc.sent = <<>>

\* C21 as amended: a call makes a "$/cancelRequest" notification exactly
\* when its context is cancelled at the test of ctx.Err() that follows
\* Await, also when Await had already returned the response; no
\* notification is made before that test.
C21_NotifyIffCancelledAtCheck ==
    /\ rpc.pc \in {"idle", "await", "check", "notify"} => rpc.sent = <<>>
    /\ rpc.pc = "notify" => rpc.errAtCheck # ErrNone
    /\ rpc.pc \in {"return", "done"} =>
          /\ Len(rpc.sent) = (IF rpc.errAtCheck # ErrNone THEN 1 ELSE 0)
          /\ \A i \in 1..Len(rpc.sent) : rpc.sent[i].method = MethodCancelRequest

\* the context was cancelled after Await returned the response, before the test
C21_Witness ==
    /\ rpc.pc = "done" /\ ResponseBeforeCancel
    /\ rpc.response = "result" /\ rpc.awaitErr = ErrNone
    /\ rpc.errAtCheck = Canceled /\ Len(rpc.sent) = 1

\* the context was cancelled only after the test: no notification
C21_WitnessLate ==
    /\ rpc.pc = "done" /\ rpc.errAtCheck = ErrNone /\ rpc.ctxErr = Canceled
    /\ rpc.sent = <<>>

\* C22 (handlers): a handler built by ClientHandler or ServerHandler whose
\* request context is cancelled at entry returns (nil, RequestCancelledError)
\* without invoking the dispatch function, and otherwise returns what the
\* dispatch function returns; RequestCancelledError is a non-nil error with
\* code -32800 and message "JSON RPC cancelled".
C22_Handlers ==
    /\ call \in {"ClientHandler", "ServerHandler"} =>
          IF rpc.ctxErr # ErrNone
          THEN /\ ret.result = "nil"
               /\ ret.err = RequestCancelledError
               /\ ~ret.dispatched
               /\ ret.err # NilError
               /\ ret.err.code = 0 - 32800
               /\ ret.err.message = "JSON RPC cancelled"
          ELSE /\ ret.dispatched
               /\ ret.result = rpc.dispatch.result
               /\ ret.err = rpc.dispatch.err

\* a cancelled request whose dispatch would have succeeded
C22_Witness ==
    /\ call = "ClientHandler" /\ rpc.ctxErr = Canceled
    /\ rpc.dispatch = [result |-> "r1", err |-> NilError]
    /\ ret.err = RequestCancelledError /\ ret.result = "nil"

C22_WitnessServer ==
    /\ call = "ServerHandler" /\ rpc.ctxErr = ErrNone
    /\ rpc.dispatch.err.code = 0 - 32601
    /\ ret.err = rpc.dispatch.err /\ ret.dispatched

(* ----------------------- claims: order and precedence ------------------ *)

\* position of es[i] when es is ordered by Start alone, ties in input order
StartRank(es, i) ==
    1 + Cardinality({j \in 1..Len(es) :
                       es[j].Start < es[i].Start \/ (es[j].Start = es[i].Start /\ j < i)})

\* es ordered by Start alone, edits with the same Start in input order
StartOrder(es) ==
    [r \in 1..Len(es) |-> es[CHOOSE i \in 1..Len(es) : StartRank(es, i) = r]]

\* a non-empty replacement supplied before an insertion at the same Start
ReplaceThenInsert == <<Ed(0, 1, <<88>>), Ed(0, 0, <<89>>)>>

InKeyOrder(es) == \A i \in 2..Len(es) : ~KeyBefore(es[i], es[i - 1])

\* C24 (validate's result): on success validate returns the input edits,
\* each as often as in the input, in non-decreasing (Start, End) order; an
\* input already in that order is returned in the input's order.
C24_SortedPermutation ==
    (Validated /\ ret.err = ErrNone) =>
        /\ Len(ret.edits) = Len(edits)
        /\ \A k \in 1..Len(edits) : Count(ret.edits, edits[k]) = Count(edits, edits[k])
        /\ InKeyOrder(ret.edits)
        /\ InKeyOrder(edits) => ret.edits = edits

\* an unsorted input with an edit given twice
C24_Witness ==
    /\ Validated /\ ret.err = ErrNone
    /\ Len(edits) = 3 /\ ~InKeyOrder(edits) /\ edits[1] = edits[3]
    /\ ret.edits = <<edits[2], edits[1], edits[3]>>

C24_WitnessSorted ==
    /\ Validated /\ ret.err = ErrNone
    /\ Len(edits) = 3 /\ InKeyOrder(edits) /\ SameKey(edits[1], edits[2])
    /\ edits[1].New # edits[2].New /\ ret.edits = edits

\* so[i] breaks a rule: it is out of bounds or starts before the End of so[i - 1]
Offends(so, i) == ~InBounds(so[i], Len(src)) \/ OverlapsAt(so, i)

\* the error of the first edit of so that breaks a rule, bounds before overlap
ErrorOfFirstOffender(so) ==
    LET f == CHOOSE i \in 1..Len(so) :
                 Offends(so, i) /\ \A j \in 1..(i - 1) : ~Offends(so, j)
    IN  IF ~InBounds(so[f], Len(src)) THEN ErrOutOfBounds ELSE ErrOverlap

\* some edit of the stable order starts before the End of the edit before it
HasOverlap == \E i \in 1..Len(edits) : OverlapsAt(StableOrder(edits), i)

\* C25 (error precedence): validate reports the error of the first edit, in
\* stable (Start, End) order, that breaks a rule, and for that edit the
\* bounds rule before the overlap rule; a sequence with an out-of-bounds
\* edit gives the overlapping-edits error when an overlap comes at an
\* earlier sorted position and the out-of-bounds error otherwise.
C25_ErrorPrecedence ==
    (Validated \/ Applied) =>
        LET so == StableOrder(edits) IN
        /\ (\E i \in 1..Len(so) : Offends(so, i)) => ret.err = ErrorOfFirstOffender(so)
        /\ (\A i \in 1..Len(so) : ~Offends(so, i)) => ret.err = ErrNone
        /\ (HasOutOfBounds /\ ret.err = ErrOverlap) =>
              \E i \in 1..Len(so) :
                  /\ OverlapsAt(so, i)
                  /\ \A j \in 1..i : InBounds(so[j], Len(src))

\* both rules are broken, the overlap at the earlier sorted position
C25_Witness ==
    /\ Validated /\ HasOutOfBounds /\ HasOverlap /\ Len(edits) = 3
    /\ InBounds(StableOrder(edits)[2], Len(src))
    /\ OverlapsAt(StableOrder(edits), 2)
    /\ ~InBounds(StableOrder(edits)[3], Len(src))
    /\ ret.err = ErrOverlap

\* one edit breaks both rules: out of bounds is reported
C25_WitnessBothAtOne ==
    /\ Validated /\ Len(edits) = 2
    /\ OverlapsAt(StableOrder(edits), 2) /\ ~InBounds(StableOrder(edits)[2], Len(src))
    /\ InBounds(StableOrder(edits)[1], Len(src))
    /\ ret.err = ErrOutOfBounds

(* ---------------------------- claims: comparator ----------------------- *)

\* C26 (comparator): for any two edits with machine-integer offsets,
\* Less(i, j) holds exactly when (Start_i, End_i) is lexicographically smaller
\* than (Start_j, End_j), also when Start_i - Start_j wraps around; and
\* sortEdits leaves the edits in ascending (Start, End) order.
C26_LessIsKeyOrder ==
    /\ call = "Less" => (ret.less <=> KeyBefore(edits[ret.i], edits[ret.j]))
    /\ call = "sortEdits" => InKeyOrder(ret.edits)

(* ------------------------- claims: ApplyEdits -------------------------- *)

\* the Edit of each TextEdit of the input, in input order: the Mapper's
\* offsets of its Range and its NewText
ConvertedEdits ==
    [i \in 1..Len(tedits) |->
        [Start |-> RangeOffsets(src, tedits[i].Range).start,
         End |-> RangeOffsets(src, tedits[i].Range).end,
         New |-> tedits[i].NewText]]

\* C27 (EditsToDiffEdits preserves order): on success EditsToDiffEdits
\* returns one Edit per input TextEdit, the i-th with the Mapper's offsets
\* and the new text of the i-th TextEdit, unsorted, and nil for nil input;
\* the edits ApplyEdits returns are in that input order although the patch
\* is computed on a sorted copy.
C27_InputOrderKept ==
    /\ (call = "EditsToDiffEdits" /\ ret.err = ErrNone) =>
          IF teditsNil THEN ret.editsNil /\ ret.edits = <<>>
          ELSE ~ret.editsNil /\ ret.edits = ConvertedEdits
    /\ (call = "ApplyEdits" /\ ~SomeRangeFails) => ret.edits = ConvertedEdits

\* ApplyEdits patched on a sorted copy and returned the edits unsorted
C27_Witness ==
    /\ call = "ApplyEdits" /\ ret.err = ErrNone /\ Len(tedits) = 2
    /\ ~InKeyOrder(ConvertedEdits) /\ ret.edits = ConvertedEdits
    /\ ret.out # src

C27_WitnessNil ==
    /\ call = "EditsToDiffEdits" /\ teditsNil /\ ret.editsNil /\ ret.err = ErrNone

\* C28 (ApplyEdits outcomes): when the conversion fails ApplyEdits returns
\* nil bytes, nil edits and the error; when the conversion succeeds and the
\* converted edits are valid it returns the patched Mapper.Content and the
\* converted edits; when they are out of bounds or overlap it returns that
\* error, an empty buffer and all the converted edits.
C28_ApplyEditsOutcomes ==
    call = "ApplyEdits" =>
        LET so == StableOrder(ConvertedEdits) IN
        IF SomeRangeFails
        THEN /\ ret.err = ErrMapping
             /\ ret.outNil /\ ret.out = <<>>
             /\ ret.editsNil /\ ret.edits = <<>>
        ELSE IF \E i \in 1..Len(so) : Offends(so, i)
        THEN /\ ret.err = ErrorOfFirstOffender(so)
             /\ ret.out = <<>>
             /\ ret.edits = ConvertedEdits /\ Len(ret.edits) = Len(tedits)
        ELSE /\ ret.err = ErrNone /\ ret.panic = PanicNone
             /\ ret.out = Patched(src, so) /\ ~ret.outNil
             /\ ret.edits = ConvertedEdits

\* the conversion succeeds and the converted edits overlap
C28_Witness ==
    /\ call = "ApplyEdits" /\ ~SomeRangeFails /\ Len(tedits) = 2
    /\ ret.err = ErrOverlap /\ ret.out = <<>>
    /\ ret.edits = ConvertedEdits /\ Len(ret.edits) = 2

C28_WitnessSuccess ==
    /\ call = "ApplyEdits" /\ Len(tedits) = 2 /\ ret.err = ErrNone
    /\ Len(ret.out) = Len(src) + 1 /\ Len(src) = 2

C28_WitnessOutOfBounds ==
    /\ call = "ApplyEdits" /\ ~SomeRangeFails /\ ret.err = ErrOutOfBounds

(* --------------------------- claims: apply's loop ---------------------- *)

\* at the head of the loop: the cursor and the edit of the coming iteration
\* are ordered and inside src
CursorInBounds ==
    call = "apply.loop" =>
        /\ 0 <= ret.lastEnd /\ ret.lastEnd <= Len(src)
        /\ ret.i <= Len(ret.edits) =>
              /\ ret.lastEnd <= ret.edits[ret.i].Start
              /\ ret.edits[ret.i].Start <= ret.edits[ret.i].End
              /\ ret.edits[ret.i].End <= Len(src)

\* C29 (cursor invariant): after validate succeeds, at the start of every
\* iteration of apply's loop 0 <= lastEnd <= edit.Start <= edit.End <=
\* len(src); lastEnd never decreases from one iteration to the next; and for
\* no input does apply fail with a slice-bounds fault.
C29_CursorInvariant ==
    [][/\ CursorInBounds'
       /\ (call = "apply.loop" /\ call' = "apply.loop") => ret'.lastEnd >= ret.lastEnd
       /\ call' = "apply" => ret'.panic # PanicSliceBounds]_vars

\* before the third iteration, the cursor having moved twice
C29_Witness ==
    /\ call = "apply.loop" /\ ret.i = 3 /\ Len(ret.edits) = 3
    /\ ret.lastEnd = 2 /\ ret.edits[3].Start = 2 /\ ret.edits[3].End = 3
    /\ ~IsSorted(edits) /\ Len(ret.out) > 0

(* ---------------------- claims: SelectCompletionTextEdit --------------- *)

\* C30 (SelectCompletionTextEdit): for a held TextEdit it returns that edit
\* in either mode; for a held InsertReplaceEdit it returns the item's new
\* text with the Replace range when useReplaceMode is true and with the
\* Insert range otherwise; for any other held value, none included, it
\* returns an error and the zero TextEdit.
C30_SelectCompletionTextEdit ==
    call = "SelectCompletionTextEdit" =>
        LET v == elems[1] IN
        /\ v.tag = "TextEdit" =>
              /\ ret.err = ErrNone
              /\ ret.edit.Range = v.Range /\ ret.edit.NewText = v.NewText
        /\ v.tag = "InsertReplaceEdit" =>
              /\ ret.err = ErrNone
              /\ ret.edit.NewText = v.NewText
              /\ ret.edit.Range = (IF ret.useReplaceMode THEN v.Replace ELSE v.Insert)
        /\ v.tag \notin {"TextEdit", "InsertReplaceEdit"} =>
              /\ ret.err # ErrNone
              /\ ret.edit = [Range |-> [start |-> [line |-> 0, character |-> 0],
                                        end |-> [line |-> 0, character |-> 0]],
                             NewText |-> <<>>]

\* replace mode with different Insert and Replace ranges
C30_Witness ==
    /\ call = "SelectCompletionTextEdit" /\ elems[1].tag = "InsertReplaceEdit"
    /\ ret.useReplaceMode /\ elems[1].Insert # elems[1].Replace
    /\ ret.edit.Range = elems[1].Replace /\ ret.edit.NewText = <<89>>

C30_WitnessNone ==
    /\ call = "SelectCompletionTextEdit" /\ elems[1].tag = "nil"
    /\ ret.err = ErrUnsupportedEdit

====
